---- MODULE Spec2Model ----
(***************************************************************************)
(* The mbq queue engine (src/src/engine.rs) with its profile registry      *)
(* (src/src/config.rs) and command dispatch (src/src/cli.rs).              *)
(*                                                                         *)
(* A maildir is modelled by its committed set (cur/) and, where a commit   *)
(* can fail after the write, its tentative set (new/).  The queue and the  *)
(* sent store hold message identifiers; the revive store holds copies to   *)
(* which store_new gave identifiers of their own, so it is a bag of        *)
(* [msg, flags] records.  Every engine call runs to completion before the  *)
(* next one starts (call.stage), one loop iteration per step.  A failure   *)
(* of the SMTP transport, of a write or commit into a store, or of a       *)
(* delete is an input of the step it hits; faults counts them.  Listing a  *)
(* directory and reading a committed file are taken to succeed.            *)
(***************************************************************************)
EXTENDS Integers, Sequences, FiniteSets, Bags, TLC

\* ---------------------------------------------------------------- bounds
MaxMsgs == 2       \* messages ever enqueued
FirstId == 9       \* the first identifier store_new hands out
MaxFaults == 1     \* injected failures per behaviour
MaxBad == 1        \* enqueued messages that lack a header the engine reads

Profiles == {"home", "work"}
NoName == "-"            \* Option::None where a profile name is optional
UnknownName == "nope"    \* a name the configuration does not hold
Names == Profiles \cup {UnknownName}

\* ------------------------------------------------------- message content
\* What the engine reads of a message's bytes: its address headers and
\* its subject.
Good   == [from |-> "valid",  to |-> "valid",     cc |-> "absent",
           subject |-> "valid"]
NoTo   == [from |-> "valid",  to |-> "absent",    cc |-> "absent",
           subject |-> "valid"]
NoFrom == [from |-> "absent", to |-> "valid",     cc |-> "absent",
           subject |-> "valid"]
BadTo  == [from |-> "valid",  to |-> "malformed", cc |-> "absent",
           subject |-> "valid"]
NoSubject == [from |-> "valid", to |-> "valid",   cc |-> "absent",
              subject |-> "absent"]
MailPool == {Good, NoTo, NoFrom, BadTo, NoSubject}

\* engine.rs 177-211: From and To are required, every address must parse.
HeadersOk(m) ==
    /\ m.from = "valid"
    /\ m.to = "valid"
    /\ m.cc \in {"absent", "valid"}

\* ------------------------------------------------------ identifier order
RECURSIVE Digits(_)
Digits(n) == IF n < 10 THEN <<n>> ELSE Append(Digits(n \div 10), n % 10)

\* String order of two digit strings, as BTreeSet<String> keeps them.
LexLess(a, b) ==
    \/ /\ Len(a) < Len(b)
       /\ \A j \in 1..Len(a) : a[j] = b[j]
    \/ \E k \in 1..Len(a) :
          /\ k <= Len(b)
          /\ a[k] < b[k]
          /\ \A j \in 1..(k - 1) : a[j] = b[j]

IdLess(x, y) == LexLess(Digits(x), Digits(y))

\* Maildir::emails(): the committed identifiers in ascending string order.
RECURSIVE Sorted(_)
Sorted(S) ==
    IF S = {} THEN <<>>
    ELSE LET m == CHOOSE x \in S : \A y \in S \ {x} : IdLess(x, y)
         IN  <<m>> \o Sorted(S \ {m})

Range(s) == {s[k] : k \in 1..Len(s)}

\* HashMap iteration visits every profile once, in no specified order.
Orders(S) ==
    {s \in [1..Cardinality(S) -> S] : \A x \in S : \E k \in DOMAIN s : s[k] = x}

\* ------------------------------------------------------------ arithmetic
\* The largest u32, scaled down to the first value that is no valid index
\* of any queue of the model.
U32Max == MaxMsgs
U32Mod == U32Max + 1
UsizeMod == U32Mod * U32Mod
\* usize subtraction without overflow checks wraps around.
WrappingSub(a, b) == (a - b) % UsizeMod
\* `as u32` keeps the low bits.
AsU32(x) == x % U32Mod

IdxVals == 0..U32Max
\* The --idx values of a command line: a Vec<u32> in the order given, where
\* a value may occur twice.
MaxIdx == 2
IdxVecs == UNION {[1..n -> IdxVals] : n \in 0..MaxIdx}

\* ----------------------------------------------------------------- state
VARIABLES
    queue,    \* [Profiles -> committed identifiers of the queue store]
    qnew,     \* [Profiles -> identifiers written to the queue's new/ only]
    sent,     \* [Profiles -> committed identifiers of the sent store]
    revive,   \* [Profiles -> bag of committed [msg, flags] of the revive store]
    rnew,     \* [Profiles -> bag of messages written to the revive new/ only]
    mail,     \* [assigned identifiers -> message content]
    owner,    \* [assigned identifiers -> the profile enqueue was called for]
    dropped,  \* identifiers a drop has deleted
    faults,   \* failures injected so far
    call      \* the engine call in progress, or the last one finished

vars == <<queue, qnew, sent, revive, rnew, mail, owner, dropped, faults, call>>

Draft == "D"

\* call.vec is the index vector of a send and call.idx the set of values it
\* contains.
\* call.stage: "idle" before the first call; "xmit", "move", "revive", "drop"
\* inside a per-profile loop; "ret" when the per-profile function has
\* returned call.ret; "done" when the call ended without entering one.
\* emails is the rest of the listing the loop walks, acked the messages the
\* SMTP session took in this invocation, conns the sessions it opened, and
\* out the entries it printed,
\* preQueue, preSent, preRevive the stores as the invocation found them,
\* and failed the step of it that failed.  prev and last are history that
\* no code reads: prev is the single-message command run just before this
\* call, last what the next call will find there.
NoLast == [op |-> "none", name |-> NoName, i |-> 0, e |-> 0]
\* The pairs of commands, one right after the other, of which the second
\* keeps the first as prev.
Follows ==
    {<<"drop_one", "drop_one">>, <<"revive_one", "show">>, <<"send", "send">>}

IdleCall ==
    [op |-> "none", stage |-> "idle", name |-> NoName, profs |-> <<>>,
     hasIdx |-> FALSE, vec |-> <<>>, idx |-> {}, i |-> 0, emails |-> <<>>,
     ret |-> "none", failed |-> "none", acked |-> <<>>, conns |-> 0,
     out |-> <<>>,
     preQueue |-> [p \in Profiles |-> {}],
     preSent |-> [p \in Profiles |-> {}],
     preRevive |-> [p \in Profiles |-> EmptyBag],
     prev |-> NoLast, last |-> NoLast]

Init ==
    /\ queue = [p \in Profiles |-> {}]
    /\ qnew = [p \in Profiles |-> {}]
    /\ sent = [p \in Profiles |-> {}]
    /\ revive = [p \in Profiles |-> EmptyBag]
    /\ rnew = [p \in Profiles |-> EmptyBag]
    /\ mail = <<>>
    /\ owner = <<>>
    /\ dropped = {}
    /\ faults = 0
    /\ call = IdleCall

\* The failures a step may draw: none, or one of fs while the budget lasts.
FaultsOf(fs) == {"none"} \cup (IF faults < MaxFaults THEN fs ELSE {})
Charge(f) == faults' = IF f = "none" THEN faults ELSE faults + 1

\* A call as it starts, and a per-profile invocation as it is entered.
NewCall(op, name) ==
    [IdleCall EXCEPT !.op = op, !.name = name, !.preQueue = queue,
                     !.preSent = sent, !.preRevive = revive,
                     !.prev = IF <<call.last.op, op>> \in Follows
                                THEN call.last ELSE NoLast]

\* What a finished call leaves for prev: a drop_one or revive_one that
\* succeeded, with the message e it took; or a send whose move to the sent
\* store failed, with the profile it was in and the message e it had
\* transmitted.
LastOf(c) ==
    IF c.op \in {"drop_one", "revive_one"} /\ c.ret = "ok"
      THEN [op |-> c.op, name |-> c.name, i |-> c.i, e |-> Head(c.emails)]
    ELSE IF c.op = "send" /\ c.failed = "move_to"
      THEN [op |-> c.op, name |-> Head(c.profs), i |-> 0,
            e |-> Head(c.emails)]
    ELSE NoLast

Enter(c) ==
    [c EXCEPT !.preQueue = queue, !.preSent = sent, !.preRevive = revive,
              !.acked = <<>>, !.conns = 0, !.emails = <<>>, !.ret = "none",
              !.failed = "none", !.out = <<>>]

Mark(c, f) == IF f = "none" THEN c ELSE [c EXCEPT !.failed = f]

Finished(c, r) == [c EXCEPT !.stage = "done", !.ret = r]
Returned(c, r) == [c EXCEPT !.stage = "ret", !.ret = r]

Cur == Head(call.profs)

\* ----------------------------------------------------- profile dispatch
\* Mutation: a name selects nothing, every profile is visited.
MapProfiles_Everyone(name) ==
    IF name = NoName \/ name \in Profiles THEN Orders(Profiles) ELSE {}

\* Config::map (config.rs 72-82).  The profiles it will visit, in order: the
\* named one, or all of them in the order the HashMap yields them.
MapProfiles(name) ==
    IF name = NoName THEN Orders(Profiles)
    ELSE IF name \in Profiles THEN {<<name>>}
    ELSE {}

\* Mutation: the closure's result is dropped and the loop goes on.
MapContinues_IgnoreError(c) == c.stage = "ret" /\ Len(c.profs) > 1

\* The closure has returned Ok and the loop has another profile to visit.
MapContinues(c) == c.stage = "ret" /\ c.ret = "ok" /\ Len(c.profs) > 1

\* map has returned: with the closure's error, or after the last profile.
MapReturned(c) == c.stage = "ret" /\ (c.ret # "ok" \/ Len(c.profs) = 1)

\* The call has returned to the command line (cli.rs 61-89).
CallReturned(c) == c.stage = "done" \/ MapReturned(c)

\* Every command is a process of its own: it starts with nothing in memory.
Ready == call.stage = "idle"

\* ------------------------------------------------------- maildir helpers
\* Mutation: the target's files are taken back into the source.
MoveTo_Back(src, dst, id) == [src |-> (src \ {id}) \cup dst, dst |-> {id}]

\* Mutation: the file is copied and the source is kept.
MoveTo_Copy(src, dst, id) == [src |-> src, dst |-> dst \cup {id}]

\* maildir move_to: the file is renamed into the target's cur/ under the
\* same name, or nothing happens.
MoveTo(src, dst, id) == [src |-> src \ {id}, dst |-> dst \cup {id}]

\* Mutation: the whole directory is emptied.
Delete_All(q, id, f) ==
    IF id \notin q THEN [queue |-> q, ret |-> "NotFound", gone |-> {}]
    ELSE IF f = "delete" THEN [queue |-> q, ret |-> "IoError", gone |-> {}]
    ELSE [queue |-> {}, ret |-> "ok", gone |-> q]

\* maildir delete: the file is unlinked, or the call fails and it stays.
Delete(q, id, f) ==
    IF id \notin q THEN [queue |-> q, ret |-> "NotFound", gone |-> {}]
    ELSE IF f = "delete" THEN [queue |-> q, ret |-> "IoError", gone |-> {}]
    ELSE [queue |-> q \ {id}, ret |-> "ok", gone |-> {id}]

\* Mutation: the source is unlinked although the commit failed.
MaildirReviveOne_DeleteOnCommitError(q, r, rn, id, f) ==
    IF id \notin q
      THEN [queue |-> q, revive |-> r, rnew |-> rn, ret |-> "NotFound"]
    ELSE IF f = "store_new"
      THEN [queue |-> q, revive |-> r, rnew |-> rn, ret |-> "IoError"]
    ELSE IF f = "commit"
      THEN [queue |-> q \ {id}, revive |-> r, rnew |-> rn (+) SetToBag({id}),
            ret |-> "IoError"]
    ELSE LET copy == SetToBag({[msg |-> id, flags |-> Draft]})
             d == Delete(q, id, f)
         IN  [queue |-> d.queue, revive |-> r (+) copy, rnew |-> rn,
              ret |-> d.ret]

\* Mutation: the source is unlinked first, the copy written afterwards.
MaildirReviveOne_DeleteFirst(q, r, rn, id, f) ==
    IF id \notin q
      THEN [queue |-> q, revive |-> r, rnew |-> rn, ret |-> "NotFound"]
    ELSE IF f = "delete"
      THEN [queue |-> q, revive |-> r, rnew |-> rn, ret |-> "IoError"]
    ELSE IF f = "store_new"
      THEN [queue |-> q \ {id}, revive |-> r, rnew |-> rn, ret |-> "IoError"]
    ELSE IF f = "commit"
      THEN [queue |-> q \ {id}, revive |-> r, rnew |-> rn (+) SetToBag({id}),
            ret |-> "IoError"]
    ELSE [queue |-> q \ {id},
          revive |-> r (+) SetToBag({[msg |-> id, flags |-> Draft]}),
          rnew |-> rn, ret |-> "ok"]

\* Mutation: the copy is committed and the source is never unlinked.
MaildirReviveOne_NoDelete(q, r, rn, id, f) ==
    IF id \notin q
      THEN [queue |-> q, revive |-> r, rnew |-> rn, ret |-> "NotFound"]
    ELSE IF f = "store_new"
      THEN [queue |-> q, revive |-> r, rnew |-> rn, ret |-> "IoError"]
    ELSE IF f = "commit"
      THEN [queue |-> q, revive |-> r, rnew |-> rn (+) SetToBag({id}),
            ret |-> "IoError"]
    ELSE [queue |-> q,
          revive |-> r (+) SetToBag({[msg |-> id, flags |-> Draft]}),
          rnew |-> rn, ret |-> IF f = "delete" THEN "IoError" ELSE "ok"]

\* Maildir::revive_one (engine.rs 60-76) on message id, failing at step f:
\* store_new, then move_new_to_cur_with_flags(.., "D"), then delete.
\* q is the queue's committed set, r and rn the revive store's committed and
\* tentative bags.
MaildirReviveOne(q, r, rn, id, f) ==
    IF id \notin q
      THEN [queue |-> q, revive |-> r, rnew |-> rn, ret |-> "NotFound"]
    ELSE IF f = "store_new"
      THEN [queue |-> q, revive |-> r, rnew |-> rn, ret |-> "IoError"]
    ELSE IF f = "commit"
      THEN [queue |-> q, revive |-> r, rnew |-> rn (+) SetToBag({id}),
            ret |-> "IoError"]
    ELSE LET copy == SetToBag({[msg |-> id, flags |-> Draft]})
             d == Delete(q, id, f)
         IN  [queue |-> d.queue, revive |-> r (+) copy, rnew |-> rn,
              ret |-> d.ret]

ReviveFaults == {"store_new", "commit", "delete"}

\* Mutation: an index past the end wraps around to the start.
Nth_Wrap(q, i) ==
    IF q = {} THEN <<>> ELSE <<Sorted(q)[(i % Cardinality(q)) + 1]>>

\* Mutation: positions are counted from the end of the listing.
Nth_FromEnd(q, i) ==
    IF i < Cardinality(q) THEN <<Sorted(q)[Cardinality(q) - i]>> ELSE <<>>

\* Mutation: the identifiers are ordered as numbers.
Nth_Numeric(q, i) ==
    IF i < Cardinality(q)
      THEN <<CHOOSE x \in q : Cardinality({y \in q : y < x}) = i>>
      ELSE <<>>

\* Mutation: an index past the end takes the last identifier.
Nth_Clamp(q, i) ==
    IF q = {} THEN <<>>
    ELSE IF i < Cardinality(q) THEN <<Sorted(q)[i + 1]>>
    ELSE <<Sorted(q)[Cardinality(q)]>>

\* BTreeSet iter().nth(i): the i-th identifier in order, if there is one.
Nth(q, i) == IF i < Cardinality(q) THEN <<Sorted(q)[i + 1]>> ELSE <<>>

\* --------------------------------------------------------------- enqueue
\* cli.rs 63-65 and engine.rs 223-233, 78-82: the profile is looked up, stdin
\* is read whole, and the bytes are written to new/ and committed to cur/.
NextId == FirstId + Cardinality(DOMAIN mail)

\* Mutation: input whose headers make no envelope is refused.
Enqueue_Validate(name, m, f) ==
    /\ Ready
    /\ Cardinality(DOMAIN mail) < MaxMsgs
    /\ name \notin Profiles => f = "none"
    /\ m # Good => Cardinality({x \in DOMAIN mail : mail[x] # Good}) < MaxBad
    /\ Charge(f)
    /\ UNCHANGED <<sent, revive, rnew, dropped>>
    /\ LET c == NewCall("enqueue", name)
       IN  IF name \notin Profiles
             THEN /\ call' = Finished(c, "UnknownProfile")
                  /\ UNCHANGED <<queue, qnew, mail, owner>>
           ELSE IF ~HeadersOk(m)
             THEN /\ f = "none"
                  /\ call' = Finished(c, "ParseError")
                  /\ UNCHANGED <<queue, qnew, mail, owner>>
           ELSE IF f = "store_new"
             THEN /\ call' = Finished(Mark(c, f), "IoError")
                  /\ UNCHANGED <<queue, qnew, mail, owner>>
           ELSE IF f = "commit"
             THEN /\ call' = Finished(Mark(c, f), "IoError")
                  /\ qnew' = [qnew EXCEPT ![name] = @ \cup {NextId}]
                  /\ mail' = mail @@ (NextId :> m)
                  /\ owner' = owner @@ (NextId :> name)
                  /\ UNCHANGED queue
           ELSE /\ call' = Finished([c EXCEPT !.emails = <<NextId>>], "ok")
                /\ queue' = [queue EXCEPT ![name] = @ \cup {NextId}]
                /\ mail' = mail @@ (NextId :> m)
                /\ owner' = owner @@ (NextId :> name)
                /\ UNCHANGED qnew

\* cli.rs 63-65, engine.rs 223-233: enqueue for the profile name of message
\* m, failing at step f.
Enqueue(name, m, f) ==
    /\ Ready
    /\ Cardinality(DOMAIN mail) < MaxMsgs
    /\ name \notin Profiles => f = "none"
    /\ m # Good => Cardinality({x \in DOMAIN mail : mail[x] # Good}) < MaxBad
    /\ Charge(f)
    /\ UNCHANGED <<sent, revive, rnew, dropped>>
    /\ LET c == NewCall("enqueue", name)
       IN  IF name \notin Profiles
             THEN /\ call' = Finished(c, "UnknownProfile")
                  /\ UNCHANGED <<queue, qnew, mail, owner>>
           ELSE IF f = "store_new"
             THEN /\ call' = Finished(Mark(c, f), "IoError")
                  /\ UNCHANGED <<queue, qnew, mail, owner>>
           ELSE IF f = "commit"
             THEN /\ call' = Finished(Mark(c, f), "IoError")
                  /\ qnew' = [qnew EXCEPT ![name] = @ \cup {NextId}]
                  /\ mail' = mail @@ (NextId :> m)
                  /\ owner' = owner @@ (NextId :> name)
                  /\ UNCHANGED queue
           ELSE /\ call' = Finished([c EXCEPT !.emails = <<NextId>>], "ok")
                /\ queue' = [queue EXCEPT ![name] = @ \cup {NextId}]
                /\ mail' = mail @@ (NextId :> m)
                /\ owner' = owner @@ (NextId :> name)
                /\ UNCHANGED qnew

\* -------------------------------------------------------------- delivery
\* Mutation: the listing is walked from its end.
Pick_Reversed(es, idx) ==
    LET F[k \in 0..Len(es)] ==
          IF k = 0 THEN <<>>
          ELSE IF (k - 1) \in idx THEN <<es[k]>> \o F[k - 1] ELSE F[k - 1]
    IN  F[Len(es)]

\* engine.rs 146-151: the messages whose position is among the indices.
Pick(es, idx) ==
    LET F[k \in 0..Len(es)] ==
          IF k = 0 THEN <<>>
          ELSE IF (k - 1) \in idx THEN Append(F[k - 1], es[k]) ELSE F[k - 1]
    IN  F[Len(es)]

\* engine.rs 141-144: the bound the indices are held against, and the test
\* that rejects them.
IndexBound(n) == AsU32(WrappingSub(n, 1))
IndexRejected(idx, n) == \A i \in idx : 0 <= i /\ i < IndexBound(n)

\* Mutation: the result of test_connection is dropped.
SendOneProfileOpen_IgnoreConnect(c, q, f, checked) ==
    LET es == Sorted(q)
        n == Len(es)
        sel == IF c.hasIdx THEN Pick(es, c.idx) ELSE es
        void == [c EXCEPT !.stage = "void"]
    IN  IF c.hasIdx /\ n = 0 /\ checked
          THEN IF f = "none" THEN Finished(c, "panic") ELSE void
        ELSE IF c.hasIdx /\ IndexRejected(c.idx, n)
          THEN IF f = "none" THEN Returned(c, "InvalidIndex") ELSE void
        ELSE IF sel = <<>>
          THEN IF f = "none" THEN Returned(c, "ok") ELSE void
        ELSE [c EXCEPT !.conns = @ + 1, !.stage = "xmit", !.emails = sel]

\* send_one_profile up to its loop (engine.rs 139-170) on a queue with
\* committed set q: c is the call entered, f the step that fails, checked
\* whether the build traps integer overflow (then the process aborts).  A
\* step the call does not reach cannot fail: such an f gives no outcome
\* (stage "void").
SendOneProfileOpen(c, q, f, checked) ==
    LET es == Sorted(q)
        n == Len(es)
        sel == IF c.hasIdx THEN Pick(es, c.idx) ELSE es
        void == [c EXCEPT !.stage = "void"]
    IN  IF c.hasIdx /\ n = 0 /\ checked
          THEN IF f = "none" THEN Finished(c, "panic") ELSE void
        ELSE IF c.hasIdx /\ IndexRejected(c.idx, n)
          THEN IF f = "none" THEN Returned(c, "InvalidIndex") ELSE void
        ELSE IF sel = <<>>
          THEN IF f = "none" THEN Returned(c, "ok") ELSE void
        ELSE IF f = "connect"
          THEN Returned([c EXCEPT !.conns = @ + 1], "ConnectFailed")
        ELSE [c EXCEPT !.conns = @ + 1, !.stage = "xmit", !.emails = sel]

\* engine.rs 122-130 and cli.rs 35-39, 67: --idx is accepted only with
\* --profile; here it comes with a profile that exists.  The call enters
\* send_one_profile for the first profile.
Send(name, hasIdx, idx, f, checked) ==
    /\ Ready
    /\ hasIdx => name \in Profiles
    /\ ~hasIdx => idx = <<>>
    /\ Charge(f)
    /\ UNCHANGED <<queue, qnew, sent, revive, rnew, mail, owner, dropped>>
    /\ LET c0 == [NewCall("send", name) EXCEPT !.hasIdx = hasIdx, !.vec = idx,
                                               !.idx = Range(idx)]
       IN  IF MapProfiles(name) = {}
             THEN /\ f = "none"
                  /\ call' = Finished(c0, "UnknownProfile")
             ELSE \E o \in MapProfiles(name) :
                     LET c == SendOneProfileOpen([c0 EXCEPT !.profs = o],
                                                 queue[o[1]], f, checked)
                     IN  /\ c.stage # "void"
                         /\ call' = Mark(c, f)

\* map goes on to the next profile.
SendNext(f, checked) ==
    /\ MapContinues(call)
    /\ call.op = "send"
    /\ Charge(f)
    /\ UNCHANGED <<queue, qnew, sent, revive, rnew, mail, owner, dropped>>
    /\ LET c0 == Enter([call EXCEPT !.profs = Tail(@)])
           c == SendOneProfileOpen(c0, queue[c0.profs[1]], f, checked)
       IN  /\ c.stage # "void"
           /\ call' = Mark(c, f)

\* Mutation: a message whose headers make no envelope is skipped and the
\* loop goes on.
SendOneProfileXmit_SkipBad(c, q, m, f) ==
    LET e == Head(c.emails)
        void == [c EXCEPT !.stage = "void"]
        rest == [c EXCEPT !.emails = Tail(@)]
    IN  IF e \notin q
          THEN IF f = "none" THEN Returned(c, "NotFound") ELSE void
        ELSE IF ~HeadersOk(m)
          THEN IF f # "none" THEN void
               ELSE IF rest.emails = <<>> THEN Returned(rest, "ok") ELSE rest
        ELSE IF f = "send_raw" THEN Returned(c, "SendFailed")
        ELSE [c EXCEPT !.acked = Append(@, e), !.stage = "move"]

\* Mutation: the result of send_raw is dropped.
SendOneProfileXmit_IgnoreSendError(c, q, m, f) ==
    LET e == Head(c.emails)
        void == [c EXCEPT !.stage = "void"]
    IN  IF e \notin q
          THEN IF f = "none" THEN Returned(c, "NotFound") ELSE void
        ELSE IF ~HeadersOk(m)
          THEN IF f = "none" THEN Returned(c, "ParseError") ELSE void
        ELSE IF f = "send_raw" THEN [c EXCEPT !.stage = "move"]
        ELSE [c EXCEPT !.acked = Append(@, e), !.stage = "move"]

\* One loop iteration up to send_raw (engine.rs 171-215) for the message at
\* the head of c.emails, with content m, q the queue's committed set.
SendOneProfileXmit(c, q, m, f) ==
    LET e == Head(c.emails)
        void == [c EXCEPT !.stage = "void"]
    IN  IF e \notin q
          THEN IF f = "none" THEN Returned(c, "NotFound") ELSE void
        ELSE IF ~HeadersOk(m)
          THEN IF f = "none" THEN Returned(c, "ParseError") ELSE void
        ELSE IF f = "send_raw" THEN Returned(c, "SendFailed")
        ELSE [c EXCEPT !.acked = Append(@, e), !.stage = "move"]

SendXmit(f) ==
    /\ call.stage = "xmit"
    /\ LET c == SendOneProfileXmit(call, queue[Cur], mail[Head(call.emails)], f)
       IN  /\ c.stage # "void"
           /\ call' = Mark(c, f)
    /\ Charge(f)
    /\ UNCHANGED <<queue, qnew, sent, revive, rnew, mail, owner, dropped>>

\* Mutation: the result of move_to is dropped and the loop goes on.
SendMove_Swallow(f) ==
    /\ call.stage = "move"
    /\ Charge(f)
    /\ UNCHANGED <<qnew, revive, rnew, mail, owner, dropped>>
    /\ LET e == Head(call.emails)
           mv == IF f = "move_to" THEN [src |-> queue[Cur], dst |-> sent[Cur]]
                 ELSE MoveTo(queue[Cur], sent[Cur], e)
           c == Mark([call EXCEPT !.emails = Tail(@)], f)
       IN  /\ queue' = [queue EXCEPT ![Cur] = mv.src]
           /\ sent' = [sent EXCEPT ![Cur] = mv.dst]
           /\ call' = IF c.emails = <<>> THEN Returned(c, "ok")
                      ELSE [c EXCEPT !.stage = "xmit"]

\* engine.rs 217-220: the transmitted message goes to the sent store, and
\* the loop goes on or the call returns.
SendMove(f) ==
    /\ call.stage = "move"
    /\ Charge(f)
    /\ UNCHANGED <<qnew, revive, rnew, mail, owner, dropped>>
    /\ IF f = "move_to"
         THEN /\ call' = Returned(Mark(call, f), "IoError")
              /\ UNCHANGED <<queue, sent>>
         ELSE LET e == Head(call.emails)
                  mv == MoveTo(queue[Cur], sent[Cur], e)
                  c == [call EXCEPT !.emails = Tail(@)]
              IN  /\ queue' = [queue EXCEPT ![Cur] = mv.src]
                  /\ sent' = [sent EXCEPT ![Cur] = mv.dst]
                  /\ call' = IF c.emails = <<>> THEN Returned(c, "ok")
                             ELSE [c EXCEPT !.stage = "xmit"]

\* ---------------------------------------------------------------- revive
\* engine.rs 270-281.
ReviveOne(name, i, f) ==
    /\ Ready
    /\ Charge(f)
    /\ UNCHANGED <<qnew, sent, mail, owner, dropped>>
    /\ LET c == [NewCall("revive_one", name) EXCEPT !.i = i]
       IN  IF name \notin Profiles
             THEN /\ f = "none"
                  /\ call' = Finished(c, "UnknownProfile")
                  /\ UNCHANGED <<queue, revive, rnew>>
           ELSE IF Nth(queue[name], i) = <<>>
             THEN /\ f = "none"
                  /\ call' = Finished(c, "InvalidIndex")
                  /\ UNCHANGED <<queue, revive, rnew>>
           ELSE LET e == Nth(queue[name], i)[1]
                    r == MaildirReviveOne(queue[name], revive[name],
                                          rnew[name], e, f)
                IN  /\ call' = Finished(Mark([c EXCEPT !.emails = <<e>>], f),
                                     r.ret)
                    /\ queue' = [queue EXCEPT ![name] = r.queue]
                    /\ revive' = [revive EXCEPT ![name] = r.revive]
                    /\ rnew' = [rnew EXCEPT ![name] = r.rnew]

\* Mutation: the first identifier of the listing is left out.
ListQueue_SkipFirst(c, q, loop) ==
    IF Cardinality(q) <= 1 THEN Returned(c, "ok")
    ELSE [c EXCEPT !.stage = loop, !.emails = Tail(Sorted(q))]

\* revive_all_one_profile and drop_all_one_profile before their loops
\* (engine.rs 288-289, 263-264): the queue is listed once.
ListQueue(c, q, loop) ==
    IF q = {} THEN Returned(c, "ok")
    ELSE [c EXCEPT !.stage = loop, !.emails = Sorted(q)]

\* engine.rs 283-285.
ReviveAll(name) ==
    /\ Ready
    /\ UNCHANGED <<queue, qnew, sent, revive, rnew, mail, owner, dropped, faults>>
    /\ LET c0 == NewCall("revive_all", name)
       IN  IF MapProfiles(name) = {}
             THEN call' = Finished(c0, "UnknownProfile")
             ELSE \E o \in MapProfiles(name) :
                     call' = ListQueue([c0 EXCEPT !.profs = o], queue[o[1]],
                                       "revive")

ReviveAllNext ==
    /\ MapContinues(call)
    /\ call.op = "revive_all"
    /\ UNCHANGED <<queue, qnew, sent, revive, rnew, mail, owner, dropped, faults>>
    /\ LET c0 == Enter([call EXCEPT !.profs = Tail(@)])
       IN  call' = ListQueue(c0, queue[c0.profs[1]], "revive")

\* engine.rs 289-291: one iteration of the loop.
ReviveStep(f) ==
    /\ call.stage = "revive"
    /\ Charge(f)
    /\ UNCHANGED <<qnew, sent, mail, owner, dropped>>
    /\ LET r == MaildirReviveOne(queue[Cur], revive[Cur], rnew[Cur],
                                 Head(call.emails), f)
           c == [call EXCEPT !.emails = Tail(@)]
       IN  /\ queue' = [queue EXCEPT ![Cur] = r.queue]
           /\ revive' = [revive EXCEPT ![Cur] = r.revive]
           /\ rnew' = [rnew EXCEPT ![Cur] = r.rnew]
           /\ call' = IF r.ret # "ok" THEN Returned(Mark(call, f), r.ret)
                      ELSE IF c.emails = <<>> THEN Returned(c, "ok")
                      ELSE c

\* ------------------------------------------------------------------ show
\* Mutation: only the From header is required.
EmailDisplay_FromOnly(m) ==
    IF m.from = "absent" THEN "ParseError" ELSE "ok"

\* Maildir::email_display (engine.rs 39-58): the From and the Subject header
\* are looked up in this order, and either one missing is an error.
EmailDisplay(m) ==
    IF m.from = "absent" THEN "ParseError"
    ELSE IF m.subject = "absent" THEN "ParseError"
    ELSE "ok"

\* Maildir::print_entries (engine.rs 31-37) from index k on: a line
\* "[k] summary" per identifier of es in order, until one cannot be
\* displayed.
RECURSIVE PrintEntries(_, _, _)
PrintEntries(es, k, ml) ==
    IF es = <<>> THEN [out |-> <<>>, ret |-> "ok"]
    ELSE IF EmailDisplay(ml[Head(es)]) # "ok"
      THEN [out |-> <<>>, ret |-> EmailDisplay(ml[Head(es)])]
    ELSE LET r == PrintEntries(Tail(es), k + 1, ml)
         IN  [out |-> <<[idx |-> k, id |-> Head(es)]>> \o r.out, ret |-> r.ret]

\* show_profile (engine.rs 238-243) on a queue with committed set q.
ShowProfile(c, q) ==
    LET r == PrintEntries(Sorted(q), 0, mail)
    IN  Returned([c EXCEPT !.out = r.out], r.ret)

\* engine.rs 234-236; cli.rs 66, 86: show is also what runs when no command
\* is given.
Show(name) ==
    /\ Ready
    /\ UNCHANGED <<queue, qnew, sent, revive, rnew, mail, owner, dropped, faults>>
    /\ LET c0 == NewCall("show", name)
       IN  IF MapProfiles(name) = {}
             THEN call' = Finished(c0, "UnknownProfile")
             ELSE \E o \in MapProfiles(name) :
                     call' = ShowProfile([c0 EXCEPT !.profs = o], queue[o[1]])

ShowNext ==
    /\ MapContinues(call)
    /\ call.op = "show"
    /\ UNCHANGED <<queue, qnew, sent, revive, rnew, mail, owner, dropped, faults>>
    /\ LET c0 == Enter([call EXCEPT !.profs = Tail(@)])
       IN  call' = ShowProfile(c0, queue[c0.profs[1]])

\* ------------------------------------------------------------------ drop
\* engine.rs 245-255.
DropOne(name, i, f) ==
    /\ Ready
    /\ Charge(f)
    /\ UNCHANGED <<qnew, sent, revive, rnew, mail, owner>>
    /\ LET c == [NewCall("drop_one", name) EXCEPT !.i = i]
       IN  IF name \notin Profiles
             THEN /\ f = "none"
                  /\ call' = Finished(c, "UnknownProfile")
                  /\ UNCHANGED <<queue, dropped>>
           ELSE IF Nth(queue[name], i) = <<>>
             THEN /\ f = "none"
                  /\ call' = Finished(c, "InvalidIndex")
                  /\ UNCHANGED <<queue, dropped>>
           ELSE LET e == Nth(queue[name], i)[1]
                    d == Delete(queue[name], e, f)
                IN  /\ call' = Finished(Mark([c EXCEPT !.emails = <<e>>], f),
                                     d.ret)
                    /\ queue' = [queue EXCEPT ![name] = d.queue]
                    /\ dropped' = dropped \cup d.gone

\* engine.rs 257-260.
DropAll(name) ==
    /\ Ready
    /\ UNCHANGED <<queue, qnew, sent, revive, rnew, mail, owner, dropped, faults>>
    /\ LET c0 == NewCall("drop_all", name)
       IN  IF MapProfiles(name) = {}
             THEN call' = Finished(c0, "UnknownProfile")
             ELSE \E o \in MapProfiles(name) :
                     call' = ListQueue([c0 EXCEPT !.profs = o], queue[o[1]],
                                       "drop")

DropAllNext ==
    /\ MapContinues(call)
    /\ call.op = "drop_all"
    /\ UNCHANGED <<queue, qnew, sent, revive, rnew, mail, owner, dropped, faults>>
    /\ LET c0 == Enter([call EXCEPT !.profs = Tail(@)])
       IN  call' = ListQueue(c0, queue[c0.profs[1]], "drop")

\* Mutation: the loop ends after its first delete.
DropStep_One(f) ==
    /\ call.stage = "drop"
    /\ Charge(f)
    /\ UNCHANGED <<qnew, sent, revive, rnew, mail, owner>>
    /\ LET d == Delete(queue[Cur], Head(call.emails), f)
           c == [call EXCEPT !.emails = Tail(@)]
       IN  /\ queue' = [queue EXCEPT ![Cur] = d.queue]
           /\ dropped' = dropped \cup d.gone
           /\ call' = IF d.ret # "ok" THEN Returned(Mark(call, f), d.ret)
                      ELSE Returned(c, "ok")

\* engine.rs 264-266: one iteration of the loop.
DropStep(f) ==
    /\ call.stage = "drop"
    /\ Charge(f)
    /\ UNCHANGED <<qnew, sent, revive, rnew, mail, owner>>
    /\ LET d == Delete(queue[Cur], Head(call.emails), f)
           c == [call EXCEPT !.emails = Tail(@)]
       IN  /\ queue' = [queue EXCEPT ![Cur] = d.queue]
           /\ dropped' = dropped \cup d.gone
           /\ call' = IF d.ret # "ok" THEN Returned(Mark(call, f), d.ret)
                      ELSE IF c.emails = <<>> THEN Returned(c, "ok")
                      ELSE c

\* The process ends: what the call held in memory is gone, the stores stay.
Exit ==
    /\ CallReturned(call)
    /\ call' = [IdleCall EXCEPT !.last = LastOf(call)]
    /\ UNCHANGED <<queue, qnew, sent, revive, rnew, mail, owner, dropped, faults>>

\* --------------------------------------------------------- specification
Next ==
    \/ \E name \in Names, m \in MailPool,
          f \in FaultsOf({"store_new", "commit"}) : Enqueue(name, m, f)
    \/ \E name \in Names \cup {NoName}, hasIdx \in BOOLEAN, idx \in IdxVecs,
          f \in FaultsOf({"connect"}), checked \in BOOLEAN :
          Send(name, hasIdx, idx, f, checked)
    \/ \E f \in FaultsOf({"connect"}), checked \in BOOLEAN : SendNext(f, checked)
    \/ \E f \in FaultsOf({"send_raw"}) : SendXmit(f)
    \/ \E f \in FaultsOf({"move_to"}) : SendMove(f)
    \/ \E name \in Names, i \in IdxVals, f \in FaultsOf(ReviveFaults) :
          (name \in Profiles \/ i = 0) /\ ReviveOne(name, i, f)
    \/ \E name \in Names \cup {NoName} : ReviveAll(name)
    \/ ReviveAllNext
    \/ \E f \in FaultsOf(ReviveFaults) : ReviveStep(f)
    \/ \E name \in Names, i \in IdxVals, f \in FaultsOf({"delete"}) :
          (name \in Profiles \/ i = 0) /\ DropOne(name, i, f)
    \/ \E name \in Names \cup {NoName} : DropAll(name)
    \/ DropAllNext
    \/ \E f \in FaultsOf({"delete"}) : DropStep(f)
    \/ \E name \in Names \cup {NoName} : Show(name)
    \/ ShowNext
    \/ Exit

Spec == Init /\ [][Next]_vars

\* ------------------------------------------- two deliveries at one time
\* Two mbq processes run send on the same profile (spec section 5); nothing
\* in engine.rs locks the directories.  Here call maps each process to its
\* call, which carries in moved the messages it has put into the sent store.
Procs == 1..2
RaceProfile == "home"
RaceIds == FirstId..(FirstId + MaxMsgs - 1)

RaceCall ==
    [k \in DOMAIN IdleCall \cup {"moved"} |->
        IF k = "moved" THEN <<>> ELSE IdleCall[k]]

\* The queue holds one message or more, each with or without a To header.
RaceInit ==
    /\ \E q \in SUBSET RaceIds :
          /\ q # {}
          /\ queue = [p \in Profiles |-> IF p = RaceProfile THEN q ELSE {}]
          /\ mail \in [q -> {Good, NoTo}]
          /\ owner = [id \in q |-> RaceProfile]
    /\ qnew = [p \in Profiles |-> {}]
    /\ sent = [p \in Profiles |-> {}]
    /\ revive = [p \in Profiles |-> EmptyBag]
    /\ rnew = [p \in Profiles |-> EmptyBag]
    /\ dropped = {}
    /\ faults = 0
    /\ call = [p \in Procs |-> RaceCall]

\* Mutation: the rename is reported done although the file is gone.
MaildirMoveTo_Blind(src, dst, id) ==
    [src |-> src \ {id}, dst |-> dst \cup {id}, ret |-> "ok"]

\* out_maildir.move_to (engine.rs 217) when the directory may have changed
\* since it was listed: the file is looked up again, and renamed if found.
MaildirMoveTo(src, dst, id) ==
    IF id \notin src THEN [src |-> src, dst |-> dst, ret |-> "NotFound"]
    ELSE [src |-> MoveTo(src, dst, id).src, dst |-> MoveTo(src, dst, id).dst,
          ret |-> "ok"]

\* engine.rs 139-170: process p lists the queue and opens its session.
RaceOpen(p) ==
    /\ call[p].stage = "idle"
    /\ LET c0 == [RaceCall EXCEPT !.op = "send", !.name = RaceProfile,
                                  !.profs = <<RaceProfile>>,
                                  !.preQueue = queue, !.preSent = sent]
       IN  call' = [call EXCEPT ![p] =
                       SendOneProfileOpen(c0, queue[RaceProfile], "none", FALSE)]
    /\ UNCHANGED <<queue, qnew, sent, revive, rnew, mail, owner, dropped, faults>>

\* engine.rs 171-215: process p looks its next message up and transmits it.
RaceXmit(p) ==
    /\ call[p].stage = "xmit"
    /\ call' = [call EXCEPT ![p] =
                   SendOneProfileXmit(call[p], queue[RaceProfile],
                                      mail[Head(call[p].emails)], "none")]
    /\ UNCHANGED <<queue, qnew, sent, revive, rnew, mail, owner, dropped, faults>>

\* engine.rs 217-220: process p moves the message it has transmitted.
RaceMove(p) ==
    /\ call[p].stage = "move"
    /\ LET e == Head(call[p].emails)
           mv == MaildirMoveTo(queue[RaceProfile], sent[RaceProfile], e)
           c == [call[p] EXCEPT !.emails = Tail(@), !.moved = Append(@, e)]
       IN  /\ queue' = [queue EXCEPT ![RaceProfile] = mv.src]
           /\ sent' = [sent EXCEPT ![RaceProfile] = mv.dst]
           /\ call' = [call EXCEPT ![p] =
                          IF mv.ret # "ok" THEN Returned(call[p], mv.ret)
                          ELSE IF c.emails = <<>> THEN Returned(c, "ok")
                          ELSE [c EXCEPT !.stage = "xmit"]]
    /\ UNCHANGED <<qnew, revive, rnew, mail, owner, dropped, faults>>

RaceNext ==
    \/ \E p \in Procs : RaceOpen(p)
    \/ \E p \in Procs : RaceXmit(p)
    \/ \E p \in Procs : RaceMove(p)

SpecRace == RaceInit /\ [][RaceNext]_vars

\* ================================================================ claims
\* send_one_profile has been entered and has returned (or the process has
\* aborted inside it).
DeliverReturned ==
    /\ call.op = "send"
    /\ call.stage \in {"ret", "done"}
    /\ call.profs # <<>>

\* The queue's message count as the invocation found it.
PreCount == Cardinality(call.preQueue[Cur])

\* The messages a deliver call is asked for: those at the requested
\* positions of the ordered queue, or all of them.
Selected ==
    LET es == Sorted(call.preQueue[Cur])
    IN  IF call.hasIdx THEN {es[i + 1] : i \in call.idx \cap 0..(Len(es) - 1)}
        ELSE Range(es)

\* The messages of profile p's revive store, and the committed draft copies
\* a bag holds of message id.
InRevive(p) == {e.msg : e \in BagToSet(revive[p])}
Drafts(b, id) == CopiesIn([msg |-> id, flags |-> Draft], b)

\* The identifiers whose enqueue succeeded.
Enqueued == {id \in DOMAIN mail : id \notin qnew[owner[id]]}

\* C1: every message that was enqueued and that no drop deleted is in the
\* queue, the sent or the revive store of its profile, whatever failure was
\* injected.
C1_NoLoss ==
    \A id \in Enqueued \ dropped :
        id \in queue[owner[id]] \cup sent[owner[id]] \cup InRevive(owner[id])

\* A revive met a failure after a message of the profile had been sent.
C1_Witness ==
    /\ call.op = "revive_one"
    /\ call.stage = "done"
    /\ call.failed \in ReviveFaults
    /\ call.name \in Profiles
    /\ sent[call.name] # {}
    /\ Enqueued \ dropped # {}

\* C2 (the claim, for a queue that holds a message): deliver with an index
\* at or beyond the queue's message count fails with InvalidIndex, transmits
\* nothing and moves nothing.
C2_InvalidIndexFailsWhole ==
    (/\ DeliverReturned
     /\ call.hasIdx
     /\ PreCount >= 1
     /\ \E i \in call.idx : i >= PreCount)
    => /\ call.ret = "InvalidIndex"
       /\ call.acked = <<>>
       /\ queue = call.preQueue
       /\ sent = call.preSent

\* C3 (the claim): with valid headers, no failure and a non-empty subset of
\* valid indices, deliver succeeds, transmits exactly the selected messages,
\* moves exactly those to the sent store and leaves the others queued.
C3_ValidSubsetDelivered ==
    (/\ DeliverReturned
     /\ call.hasIdx
     /\ call.idx # {}
     /\ \A i \in call.idx : i < PreCount
     /\ faults = 0
     /\ \A m \in call.preQueue[Cur] : HeadersOk(mail[m]))
    => /\ call.ret = "ok"
       /\ Range(call.acked) = Selected
       /\ sent[Cur] = call.preSent[Cur] \cup Selected
       /\ queue[Cur] = call.preQueue[Cur] \ Selected

\* C4: when a selected message's headers are missing or malformed, deliver
\* returns an error, and that message and every selected message after it
\* are neither transmitted nor moved: they are still in the queue.
C4_FailFast ==
    DeliverReturned =>
        \A b \in Selected :
            ~HeadersOk(mail[b]) =>
                /\ call.ret # "ok"
                /\ \A m \in Selected :
                       (m = b \/ IdLess(b, m)) =>
                           /\ m \in queue[Cur]
                           /\ m \notin sent[Cur]
                           /\ m \notin Range(call.acked)

\* deliver stopped at a message without a To header that another selected
\* message follows.
C4_Witness ==
    /\ call.op = "send"
    /\ call.stage = "ret"
    /\ call.ret = "ParseError"
    /\ Len(call.emails) >= 2
    /\ mail[Head(call.emails)].to = "absent"

\* C5: when deliver fails at a selected message, every selected message
\* before it has been transmitted and is in the sent store, not in the queue.
C5_PartialProgressKept ==
    (/\ call.op = "send"
     /\ call.stage = "ret"
     /\ call.ret # "ok"
     /\ call.emails # <<>>)
    => \A m \in Selected :
           IdLess(m, Head(call.emails)) =>
               /\ m \in sent[Cur]
               /\ m \notin queue[Cur]
               /\ m \in Range(call.acked)

\* deliver failed at its second message.
C5_Witness ==
    /\ call.op = "send"
    /\ call.stage = "ret"
    /\ call.ret # "ok"
    /\ call.emails # <<>>
    /\ \E m \in Selected : IdLess(m, Head(call.emails))

\* C6: when the connectivity check fails, deliver returns an error with no
\* message transmitted and the queue and sent stores as it found them.
C6_ConnectFailureAborts ==
    (call.op = "send" /\ call.failed = "connect")
    => /\ call.stage = "ret"
       /\ call.ret # "ok"
       /\ call.acked = <<>>
       /\ queue = call.preQueue
       /\ sent = call.preSent

\* The connectivity check failed with messages waiting.
C6_Witness ==
    /\ call.op = "send"
    /\ call.failed = "connect"
    /\ call.stage = "ret"
    /\ call.conns = 1
    /\ queue[Cur] # {}

\* C7: at every point of a deliver call, a message it has put into the sent
\* store is one the SMTP session took earlier in the same call.
C7_SentOnlyAfterAck ==
    (call.op = "send" /\ call.profs # <<>>)
    => \A p \in Profiles :
           sent[p] \ call.preSent[p] \subseteq
               (IF p = Cur THEN Range(call.acked) ELSE {})

\* deliver has moved a message into the sent store.
C7_Witness ==
    /\ call.op = "send"
    /\ call.profs # <<>>
    /\ sent[Cur] \ call.preSent[Cur] # {}

\* C8 (the claim, for a call without a subset or with an empty one): on an
\* empty queue deliver succeeds, opens no session, transmits nothing and
\* leaves the sent store as it was.
C8_EmptyQueueSucceeds ==
    (/\ DeliverReturned
     /\ call.preQueue[Cur] = {}
     /\ (~call.hasIdx \/ call.idx = {}))
    => /\ call.ret = "ok"
       /\ call.conns = 0
       /\ call.acked = <<>>
       /\ sent = call.preSent

\* The places message id is in: queue and sent stores, committed revive
\* copies, and the dropped.
RECURSIVE Sum(_, _)
Sum(f, S) ==
    IF S = {} THEN 0
    ELSE LET x == CHOOSE y \in S : TRUE IN f[x] + Sum(f, S \ {x})
Places(id) ==
    Sum([p \in Profiles |->
            (IF id \in queue[p] THEN 1 ELSE 0) + (IF id \in sent[p] THEN 1 ELSE 0)
            + Drafts(revive[p], id)], Profiles)
    + (IF id \in dropped THEN 1 ELSE 0)

\* C9: without failures every enqueued message is in exactly one place:
\* queued, sent, revived (one copy) or dropped.
C9_ExactlyOnePlace ==
    faults = 0 => \A id \in Enqueued : Places(id) = 1

\* Without failures one message has been sent and another revived.
C9_Witness ==
    /\ faults = 0
    /\ \E p \in Profiles : sent[p] # {}
    /\ \E p \in Profiles : revive[p] # EmptyBag

\* A revive call has reached Maildir::revive_one, for profile ReviveProfile.
InReviveCall ==
    \/ /\ call.op = "revive_one"
       /\ call.stage = "done"
       /\ call.emails # <<>>
    \/ /\ call.op = "revive_all"
       /\ call.stage \in {"revive", "ret"}
ReviveProfile == IF call.op = "revive_one" THEN call.name ELSE Cur

\* C10: a revive call has deleted a message from the queue only if the
\* revive store has gained a committed draft copy of it; and when the write
\* or the commit of the copy fails, the call returns an error, the message
\* is still queued and the revive store's committed set has gained nothing
\* for it.
C10_DeleteLast ==
    InReviveCall =>
        LET p == ReviveProfile
            gone == call.preQueue[p] \ queue[p]
        IN  /\ \A id \in gone :
                   Drafts(revive[p], id) > Drafts(call.preRevive[p], id)
            /\ call.failed \in {"store_new", "commit"} =>
                   /\ call.stage \in {"done", "ret"}
                   /\ call.ret # "ok"
                   /\ Head(call.emails) \in queue[p]
                   /\ revive[p] = call.preRevive[p] (+)
                          SetToBag({[msg |-> m, flags |-> Draft] : m \in gone})

\* The commit of a revived copy failed.
C10_Witness ==
    /\ InReviveCall
    /\ call.failed = "commit"
    /\ call.ret = "IoError"
    /\ Head(call.emails) \in queue[ReviveProfile]
    /\ rnew[ReviveProfile] # EmptyBag

\* C11: drop_one(profile, i) with i below the queue's message count and no
\* failure deletes exactly the message at position i of the ordered queue;
\* the rest of that queue, the queues of the other profiles and the sent and
\* revive stores are as before.
C11_DropOneFrame ==
    (/\ call.op = "drop_one"
     /\ call.name \in Profiles
     /\ call.failed = "none"
     /\ call.i < Cardinality(call.preQueue[call.name]))
    => /\ call.ret = "ok"
       /\ queue = [call.preQueue EXCEPT
                      ![call.name] = @ \ {Sorted(@)[call.i + 1]}]
       /\ sent = call.preSent
       /\ revive = call.preRevive

\* drop_one deleted the first of two queued messages.
C11_Witness ==
    /\ call.op = "drop_one"
    /\ call.ret = "ok"
    /\ call.i = 0
    /\ Cardinality(call.preQueue[call.name]) = 2
    /\ Cardinality(queue[call.name]) = 1

\* This call is a drop_one that repeats the successful drop_one run just
\* before it, and no delete fails in it.
RepeatedDrop ==
    /\ call.op = "drop_one"
    /\ call.prev.op = "drop_one"
    /\ call.prev.name = call.name
    /\ call.prev.i = call.i
    /\ call.failed = "none"

\* C12 (the claim): drop_one repeated after it removed the message at its
\* index fails with InvalidIndex or NotFound and removes no further message.
C12_RepeatDropFails ==
    RepeatedDrop
    => /\ call.ret \in {"InvalidIndex", "NotFound"}
       /\ queue = call.preQueue

\* C12 (amended): the repeated drop_one fails, with InvalidIndex and the
\* queue untouched, exactly when the message removed before was the last of
\* the ordered queue, so that the index is now past the end; otherwise it
\* succeeds and deletes the message that has moved up to that index.
C12_RepeatDropLast ==
    RepeatedDrop
    => LET q == call.preQueue[call.name]
       IN  /\ call.i >= Cardinality(q) <=> \A m \in q : IdLess(m, call.prev.e)
           /\ IF call.i >= Cardinality(q)
                 THEN /\ call.ret = "InvalidIndex"
                      /\ queue = call.preQueue
                 ELSE /\ call.ret = "ok"
                      /\ queue[call.name] = q \ {Sorted(q)[call.i + 1]}

\* The repeated drop_one found its index past the end of a queue that
\* still holds a message.
C12_Witness ==
    /\ RepeatedDrop
    /\ call.ret = "InvalidIndex"
    /\ call.preQueue[call.name] # {}

\* The lines show prints for the identifiers es: index and identifier.
Listing(es) == [k \in 1..Len(es) |-> [idx |-> k - 1, id |-> es[k]]]

\* C13: revive_one(profile, i) with i below the queue's message count and
\* no failure removes exactly the i-th identifier of the ordered queue and
\* adds one copy of it, flagged as draft, to the revive store; and a show
\* that follows it lists the remaining messages in their order with the
\* indices 0, 1, ...
C13_ReviveOneThenShow ==
    /\ (/\ call.op = "revive_one"
        /\ call.name \in Profiles
        /\ call.failed = "none"
        /\ call.i < Cardinality(call.preQueue[call.name]))
       => LET e == Sorted(call.preQueue[call.name])[call.i + 1]
          IN  /\ call.ret = "ok"
              /\ queue = [call.preQueue EXCEPT ![call.name] = @ \ {e}]
              /\ revive = [call.preRevive EXCEPT ![call.name] =
                              @ (+) SetToBag({[msg |-> e, flags |-> Draft]})]
              /\ sent = call.preSent
    /\ (/\ call.op = "show"
        /\ call.stage = "ret"
        /\ call.ret = "ok"
        /\ call.prev.op = "revive_one"
        /\ call.prev.name = Cur)
       => LET before == Sorted(queue[Cur] \cup {call.prev.e})
              IsRest(x) == x # call.prev.e
          IN  /\ call.prev.e \notin queue[Cur]
              /\ before[call.prev.i + 1] = call.prev.e
              /\ call.out = Listing(SelectSeq(before, IsRest))

\* show ran after revive_one had taken the first of two queued messages:
\* the message that was at index 1 is listed at index 0.
C13_Witness ==
    /\ call.op = "show"
    /\ call.stage = "ret"
    /\ call.prev.op = "revive_one"
    /\ call.prev.name = Cur
    /\ call.prev.i = 0
    /\ Len(call.out) = 1
    /\ call.out[1].idx = 0
    /\ IdLess(call.prev.e, call.out[1].id)

\* The identifiers the stores hold when the call starts.
PreIds ==
    UNION {call.preQueue[p] \cup call.preSent[p]
             \cup {x.msg : x \in BagToSet(call.preRevive[p])} : p \in Profiles}

\* C14: an enqueue that meets no failure succeeds whatever the bytes are,
\* and adds exactly one identifier, one that no store held, to the queue of
\* its profile; every identifier present before is kept and no other store
\* changes.
C14_EnqueueAddsOne ==
    (/\ call.op = "enqueue"
     /\ call.name \in Profiles
     /\ call.failed = "none")
    => /\ call.ret = "ok"
       /\ Len(call.emails) = 1
       /\ LET e == Head(call.emails)
          IN  /\ e \notin PreIds \cup dropped
              /\ queue = [call.preQueue EXCEPT ![call.name] = @ \cup {e}]
       /\ sent = call.preSent
       /\ revive = call.preRevive

\* A message without a To header was enqueued next to an earlier one.
C14_Witness ==
    /\ call.op = "enqueue"
    /\ call.ret = "ok"
    /\ call.emails # <<>>
    /\ mail[Head(call.emails)] = NoTo
    /\ call.preQueue[call.name] # {}

\* C15: a call for a named profile works on that profile only, the queue,
\* sent and revive stores of every other profile staying as they were; a
\* call for a name that is no profile fails with the unknown-profile error
\* before any profile's operation has run.
C15_NamedDispatch ==
    /\ (call.stage # "idle" /\ call.name \in Profiles)
       => /\ call.profs \in {<<>>, <<call.name>>}
          /\ \A p \in Profiles \ {call.name} :
                 /\ queue[p] = call.preQueue[p]
                 /\ sent[p] = call.preSent[p]
                 /\ revive[p] = call.preRevive[p]
    /\ (call.stage # "idle" /\ call.name = UnknownName)
       => /\ call.stage = "done"
          /\ call.ret = "UnknownProfile"
          /\ call.profs = <<>>
          /\ call.conns = 0
          /\ call.out = <<>>
          /\ queue = call.preQueue
          /\ sent = call.preSent
          /\ revive = call.preRevive

\* drop_all for one profile has emptied its queue while the other profile
\* has a message queued.
C15_Witness ==
    /\ call.op = "drop_all"
    /\ call.name \in Profiles
    /\ call.stage = "ret"
    /\ call.preQueue[call.name] # {}
    /\ queue[call.name] = {}
    /\ \E p \in Profiles \ {call.name} : queue[p] # {}

\* A call for all profiles is inside Config::map, at profile Cur.
InMapAll ==
    /\ call.op \in {"send", "revive_all", "drop_all", "show"}
    /\ call.name = NoName
    /\ call.profs # <<>>

NoDup(s) == \A j, k \in DOMAIN s : j # k => s[j] # s[k]

\* C16: a call for all profiles visits the profiles one after another, none
\* twice: it moves to the next one only after the current one returned Ok;
\* once a profile's operation has returned an error the call ends with the
\* stores as they are, no further profile being entered; and while one
\* profile is processed the stores of the others, with what was done to
\* them earlier, are not touched.
C16_UnnamedDispatch ==
    [][InMapAll =>
          /\ NoDup(call.profs)
          /\ (call'.stage # "idle" /\ call'.profs # call.profs)
             => /\ call.stage = "ret"
                /\ call.ret = "ok"
                /\ call'.op = call.op
                /\ call'.profs = Tail(call.profs)
          /\ (call.stage = "ret" /\ call.ret # "ok")
             => /\ call'.stage = "idle"
                /\ UNCHANGED <<queue, qnew, sent, revive, rnew>>
          /\ \A p \in Profiles \ {Cur} :
                 /\ queue'[p] = queue[p]
                 /\ sent'[p] = sent[p]
                 /\ revive'[p] = revive[p]]_vars

\* The first profile's operation failed while the profile after it has a
\* message queued.
C16_Witness ==
    /\ InMapAll
    /\ call.stage = "ret"
    /\ call.ret # "ok"
    /\ Len(call.profs) = 2
    /\ queue[call.profs[2]] # {}

\* C17: revive_all on a profile, when nothing fails, returns Ok with the
\* queue empty and the revive store grown by one draft copy of each message
\* the queue held; when a step fails it returns the error at once, and the
\* failing message and those after it are still in the queue.
C17_ReviveAll ==
    (call.op = "revive_all" /\ call.profs # <<>>)
    => /\ (call.stage = "ret" /\ call.failed = "none")
          => /\ call.ret = "ok"
             /\ queue[Cur] = {}
             /\ revive[Cur] = call.preRevive[Cur] (+)
                    SetToBag({[msg |-> m, flags |-> Draft] :
                                 m \in call.preQueue[Cur]})
             /\ BagCardinality(revive[Cur]) =
                    BagCardinality(call.preRevive[Cur])
                    + Cardinality(call.preQueue[Cur])
       /\ call.failed # "none"
          => /\ call.stage = "ret"
             /\ call.ret # "ok"
             /\ Range(call.emails) \subseteq queue[Cur]
             /\ \A m \in call.preQueue[Cur] \ Range(call.emails) :
                    /\ m \notin queue[Cur]
                    /\ Drafts(revive[Cur], m) = Drafts(call.preRevive[Cur], m) + 1

\* revive_all has moved the two messages of a queue.
C17_Witness ==
    /\ call.op = "revive_all"
    /\ call.stage = "ret"
    /\ call.ret = "ok"
    /\ Cardinality(call.preQueue[Cur]) = 2
    /\ queue[Cur] = {}

\* C18: drop_all on a profile, when it returns Ok, has deleted every
\* message the queue held when it was opened, so that the queue is empty;
\* it returns Ok unless a delete fails; and it leaves the sent and revive
\* stores as they were.
C18_DropAll ==
    (call.op = "drop_all" /\ call.profs # <<>>)
    => /\ sent = call.preSent
       /\ revive = call.preRevive
       /\ (call.stage = "ret" /\ call.failed = "none") => call.ret = "ok"
       /\ (call.stage = "ret" /\ call.ret = "ok")
          => /\ queue[Cur] = {}
             /\ call.preQueue[Cur] \subseteq dropped

\* drop_all has deleted the two messages of a queue.
C18_Witness ==
    /\ call.op = "drop_all"
    /\ call.stage = "ret"
    /\ call.ret = "ok"
    /\ Cardinality(call.preQueue[Cur]) = 2
    /\ queue[Cur] = {}

\* The message has the two headers a summary line is made of.
HasSummary(m) == m.from # "absent" /\ m.subject # "absent"

\* C19: show prints the queue's identifiers in ascending order, the k-th
\* line carrying index k counted from 0, and changes no store; it prints
\* every entry and returns Ok when all have a From and a Subject header, and
\* otherwise returns an error right before the first entry that lacks one.
C19_Show ==
    (call.op = "show" /\ call.profs # <<>>)
    => LET es == Sorted(queue[Cur])
           n == Len(call.out)
       IN  /\ call.stage = "ret"
           /\ queue = call.preQueue
           /\ sent = call.preSent
           /\ revive = call.preRevive
           /\ n <= Len(es)
           /\ call.out = Listing(SubSeq(es, 1, n))
           /\ \A j, k \in 1..n :
                  j < k => IdLess(call.out[j].id, call.out[k].id)
           /\ \A k \in 1..n : HasSummary(mail[es[k]])
           /\ IF call.ret = "ok" THEN n = Len(es)
              ELSE n < Len(es) /\ ~HasSummary(mail[es[n + 1]])

\* show printed one entry and stopped at a second one that has no Subject.
C19_Witness ==
    /\ call.op = "show"
    /\ call.stage = "ret"
    /\ call.ret # "ok"
    /\ Len(call.out) = 1
    /\ \E m \in queue[Cur] : mail[m] = NoSubject

\* C20: the messages a deliver call transmits are transmitted in ascending
\* identifier order, each once, and with an index vector they are messages
\* at the positions it holds, however the vector orders or repeats them; a
\* call that returns Ok has transmitted everything selected.
C20_AscendingOnce ==
    (call.op = "send" /\ call.profs # <<>>)
    => /\ \A j, k \in 1..Len(call.acked) :
              j < k => IdLess(call.acked[j], call.acked[k])
       /\ Range(call.acked) \subseteq Selected
       /\ call.idx = Range(call.vec)
       /\ (call.stage = "ret" /\ call.ret = "ok")
          => Range(call.acked) = Selected

\* deliver has transmitted two messages for indices given in descending
\* order.
C20_Witness ==
    /\ call.op = "send"
    /\ call.hasIdx
    /\ Len(call.vec) = 2
    /\ call.vec[1] > call.vec[2]
    /\ Len(call.acked) = 2

\* C21: when the move to the sent store fails after the session took the
\* message, deliver returns an error with that message still in the queue
\* and not in the sent store, and with the messages after it neither
\* transmitted nor moved; and a deliver call that follows, selects that
\* message and returns Ok has transmitted it once more.
C21_MoveFailureResend ==
    /\ (call.op = "send" /\ call.failed = "move_to")
       => LET e == Head(call.emails)
          IN  /\ call.stage = "ret"
              /\ call.ret # "ok"
              /\ e \in Range(call.acked)
              /\ e \in queue[Cur]
              /\ e \notin sent[Cur]
              /\ \A m \in Range(Tail(call.emails)) :
                     /\ m \in queue[Cur]
                     /\ m \notin Range(call.acked)
    /\ (/\ call.op = "send"
        /\ call.profs # <<>>
        /\ call.prev.op = "send"
        /\ call.prev.name = Cur
        /\ call.stage = "ret"
        /\ call.ret = "ok"
        /\ call.prev.e \in Selected)
       => /\ call.prev.e \in Range(call.acked)
          /\ call.prev.e \in sent[Cur]

\* The deliver call after a failed move has transmitted the message again.
C21_Witness ==
    /\ call.op = "send"
    /\ call.profs # <<>>
    /\ call.prev.op = "send"
    /\ call.prev.name = Cur
    /\ call.prev.e \in Range(call.acked)

\* C22: a command that starts finds the queue as the commands before it
\* left it, and resolves its indices against that: drop_one and revive_one
\* take the identifier at position i of that queue in order, or fail when
\* it has none, and deliver with an index vector selects the identifiers at
\* the positions the vector holds.
C22_FreshEnumeration ==
    [][(call.stage = "idle" /\ call'.stage # "idle" /\ call'.name \in Profiles)
       => LET q == queue[call'.name]
              es == Sorted(q)
          IN  /\ call'.preQueue = queue
              /\ call'.op \in {"drop_one", "revive_one"}
                 => IF call'.i < Len(es)
                      THEN /\ call'.emails = <<es[call'.i + 1]>>
                           /\ call'.ret = "ok"
                              => queue'[call'.name] = q \ {es[call'.i + 1]}
                      ELSE /\ call'.ret = "InvalidIndex"
                           /\ queue' = queue
              /\ (call'.op = "send" /\ call'.hasIdx /\ call'.stage = "xmit")
                 => Range(call'.emails) =
                       {es[i + 1] : i \in call'.idx \cap 0..(Len(es) - 1)}
      ]_vars

\* drop_one run twice with the same index has deleted two different
\* messages.
C22_Witness ==
    /\ call.op = "drop_one"
    /\ call.ret = "ok"
    /\ call.prev.op = "drop_one"
    /\ call.prev.name = call.name
    /\ call.prev.i = call.i
    /\ Head(call.emails) # call.prev.e
    /\ {Head(call.emails), call.prev.e} \subseteq dropped

\* C23: drop_one and revive_one with an index at or past the queue's
\* message count, any index on an empty queue included, return the
\* invalid-index error and leave the queue, sent and revive stores as they
\* were.
C23_InvalidIndexOne ==
    (/\ call.op \in {"drop_one", "revive_one"}
     /\ call.name \in Profiles
     /\ call.i >= Cardinality(call.preQueue[call.name]))
    => /\ call.ret = "InvalidIndex"
       /\ call.emails = <<>>
       /\ queue = call.preQueue
       /\ sent = call.preSent
       /\ revive = call.preRevive

\* revive_one was given the index right past the end of a queue that holds
\* a message.
C23_Witness ==
    /\ call.op = "revive_one"
    /\ call.name \in Profiles
    /\ call.preQueue[call.name] # {}
    /\ call.i = Cardinality(call.preQueue[call.name])
    /\ call.ret = "InvalidIndex"

\* C24 (the claim): the bound deliver holds a requested index vector against
\* is the queue's message count, for every count; and on an empty queue the
\* call returns a value: it does not abort on the subtraction.
C24_BoundIsCount ==
    (DeliverReturned /\ call.hasIdx)
    => /\ call.ret # "panic"
       /\ IndexBound(PreCount) = PreCount

\* The processes that have transmitted message id, and those that have
\* moved it into the sent store.
TransmittedBy(id) == {p \in Procs : id \in Range(call[p].acked)}
MovedBy(id) == {p \in Procs : id \in Range(call[p].moved)}

\* C25: however two deliver calls on one profile interleave, every message
\* is in the queue or in the sent store, never in both, and a message that
\* has left the queue was transmitted by at least one of the calls and was
\* put into the sent store by exactly one.
C25_RaceNoLoss ==
    \A id \in DOMAIN mail :
        /\ id \in queue[RaceProfile] \cup sent[RaceProfile]
        /\ ~(id \in queue[RaceProfile] /\ id \in sent[RaceProfile])
        /\ id \in sent[RaceProfile]
           => /\ TransmittedBy(id) # {}
              /\ Cardinality(MovedBy(id)) = 1
        /\ MovedBy(id) # {} => id \in sent[RaceProfile]

\* Both calls listed the same queue and both transmitted the same message,
\* which is in the sent store.
C25_Witness ==
    /\ call[1].preQueue = call[2].preQueue
    /\ \E id \in DOMAIN mail :
          /\ TransmittedBy(id) = Procs
          /\ id \in sent[RaceProfile]

\* C26: no step of any operation takes a message out of the sent store or
\* a copy out of the revive store, and none puts an identifier that is not
\* in a queue into that queue, unless it is the fresh one of an enqueue: the
\* sent and revive stores only grow, and what has left a queue stays out.
C26_OneWay ==
    [][\A p \in Profiles :
          /\ sent[p] \subseteq sent'[p]
          /\ revive[p] \sqsubseteq revive'[p]
          /\ \A id \in DOMAIN mail :
                 id \notin queue[p] => id \notin queue'[p]
          /\ queue'[p] \cap sent'[p] = {}]_vars

\* A deliver call has returned after one message was sent and another
\* dropped.
C26_Witness ==
    /\ call.op = "send"
    /\ call.stage = "ret"
    /\ dropped # {}
    /\ \E p \in Profiles : sent[p] # {} /\ sent[p] \cap dropped = {}
====
